---- MODULE Spec2Model ----
(***************************************************************************)
(* State-machine model of nfl_scout_utils.py: the two input files, the     *)
(* sqlite tables Players and Tests that parse_data fills, the dictionary   *)
(* of Player objects it returns, and the query operations on it            *)
(* (Player.get_score, Player.was_drafted, Player.get_percentile and the    *)
(* table builders barplot, histogram, boxplot, scatterplot, kmeans).       *)
(*                                                                         *)
(* Strings are TLA+ strings.  A Python float is modelled by the integer    *)
(* number of hundredths it denotes (4.55 is 455, 100.0 is 10000).          *)
(***************************************************************************)
EXTENDS Integers, Sequences, FiniteSets, TLC

VARIABLES
    player_file,  \* data lines of the player .txt file (header line split off)
    test_file,    \* data lines of the test .txt file
    Players,      \* rows of the sqlite table Players, in insertion order
    Tests,        \* rows of the sqlite table Tests, in insertion order
    records,      \* the dict[str, Player] the caller holds, in insertion order
    pc,           \* "write": files being written, "ready": a store is held,
                  \* "returned": a query has returned, "failed": parse_data raised
    result        \* what the last call returned or raised

vars == <<player_file, test_file, Players, Tests, records, pc, result>>

----------------------------------------------------------------------------
(* Bounds of the model. *)

MaxPlayerRows == 2
MaxTestRows == 2

PlayerIds == {"A", "B"}
Positions == {"QB", "RB"}
Years == {"2000", "2001"}
Teams == {"", "NYJ"}
TestNames == {"Forty", "Vertical"}
Values == {"", "4.55", "4.72"}

\* One data line of the player file, as dict(zip(player_var_list, player)).
PlayerLines ==
    [Pfr_ID : PlayerIds, Player : {"John"}, Pos : Positions, Ht : {"76"},
     Wt : {"252"}, Year : Years, Team : Teams, Round : {""}, Pick : {""}]

\* One data line of the test file, as dict(zip(test_var_list, test)).
TestLines ==
    [Pfr_ID : PlayerIds, Pos : Positions, Year : Years, Test : TestNames,
     Value : Values]

\* The lines written under Spec, which asks for scores and percentiles:
\* every test line, and the player lines of one year and one team (neither
\* is read by get_score or get_percentile).
ScorePlayerLines == {l \in PlayerLines : l.Year = "2000" /\ l.Team = "NYJ"}
ScoreTestLines == TestLines

\* The lines written under TableSpec, which asks for draft status and
\* tables: the player lines in which every two of position, year and team
\* occur in each of their four combinations, and the test lines of one
\* position, one year and one number (the builders read a test's name and
\* value only).
TablePlayerLines ==
    {l \in PlayerLines :
        Cardinality({f \in {"Pos", "Year", "Team"} :
            \/ f = "Pos" /\ l.Pos = "RB"
            \/ f = "Year" /\ l.Year = "2001"
            \/ f = "Team" /\ l.Team = ""}) \in {0, 2}}
TableTestLines ==
    {l \in TestLines : l.Pos = "QB" /\ l.Year = "2000" /\ l.Value # "4.72"}

\* pos=None of the table builders.
None == "<None>"

----------------------------------------------------------------------------
(* Python's float(str), in hundredths. IsFloat is false where float()      *)
(* raises ValueError.                                                      *)

IsFloat(s) == s \in {"4.55", "4.72", "74", "76", "252", "260"}

float(s) ==
    CASE s = "4.55" -> 455
      [] s = "4.72" -> 472
      [] s = "74" -> 7400
      [] s = "76" -> 7600
      [] s = "252" -> 25200
      [] s = "260" -> 26000
      [] OTHER -> 0

\* round((count / n) * 100, 2) for n > 0, in hundredths. 10000*count/n is
\* never half-way between two integers for n < 32, so the tie rule of
\* Python's round is not exercised.
round2(count, n) == (2 * 10000 * count + n) \div (2 * n)

----------------------------------------------------------------------------
(* What a call hands back. Every field is always present so that results   *)
(* compare: kind is "str", "float", "bool", "store", "table", "object",    *)
(* "raise", or "none" where nothing is handed back.                        *)

(* A table builder also leaves `rows`, its local data frame as the loop    *)
(* over the players left it, `frame`, the DataFrame it returns, and the    *)
(* `columns` of that DataFrame.                                            *)

NoResult ==
    [op |-> "none", args |-> <<>>, kind |-> "none", str |-> "", num |-> 0,
     err |-> "", columns |-> <<>>, frame |-> <<>>, rows |-> <<>>]

Returned(op, args, kind, str, num) ==
    [op |-> op, args |-> args, kind |-> kind, str |-> str, num |-> num,
     err |-> "", columns |-> <<>>, frame |-> <<>>, rows |-> <<>>]

Raised(op, args, err) ==
    [op |-> op, args |-> args, kind |-> "raise", str |-> "", num |-> 0,
     err |-> err, columns |-> <<>>, frame |-> <<>>, rows |-> <<>>]

Table(op, args, columns, frame, rows) ==
    [op |-> op, args |-> args, kind |-> "table", str |-> "", num |-> 0,
     err |-> "", columns |-> columns, frame |-> frame, rows |-> rows]

\* The builder raised `err` with `rows` in its data frame.
TableRaised(op, args, err, rows) ==
    [op |-> op, args |-> args, kind |-> "raise", str |-> "", num |-> 0,
     err |-> err, columns |-> <<>>, frame |-> <<>>, rows |-> rows]

----------------------------------------------------------------------------
(* sqlite reads: SELECT <column> FROM <table> WHERE <key>=?, then          *)
(* fetchall()[0][0].                                                       *)

PlayerRows(id) == SelectSeq(Players, LAMBDA r : r.ID = id)
TestRows(test_id) == SelectSeq(Tests, LAMBDA r : r.TestID = test_id)

Test_name(test_id) == TestRows(test_id)[1].Name

\* Test_value reading the last matching row instead of the first.
Test_value_last(test_id) ==
    LET temp == TestRows(test_id)[Len(TestRows(test_id))].Value
    IN  IF temp = "" THEN "DNP" ELSE temp

\* Test_value without the "DNP" sentinel for an empty field.
Test_value_raw(test_id) == TestRows(test_id)[1].Value

Test_value(test_id) ==
    LET temp == TestRows(test_id)[1].Value
    IN  IF temp = "" THEN "DNP" ELSE temp

Test_year(test_id) == TestRows(test_id)[1].Year

Player_name(id) == PlayerRows(id)[1].Name

\* Player_pos reading the last matching row instead of the first.
Player_pos_last(id) == PlayerRows(id)[Len(PlayerRows(id))].Pos

Player_pos(id) == PlayerRows(id)[1].Pos
Player_ht(id) == PlayerRows(id)[1].Ht
Player_wt(id) == PlayerRows(id)[1].Wt
Player_year(id) == PlayerRows(id)[1].Year

\* Player_team without the "Undrafted" sentinel for an empty field.
Player_team_raw(id) == PlayerRows(id)[1].Team

Player_team(id) ==
    LET temp == PlayerRows(id)[1].Team
    IN  IF temp = "" THEN "Undrafted" ELSE temp

\* fetchall()[0] raises IndexError when no row matches: the reads of a
\* Player succeed only if its row and the rows of its Tests exist.
Readable(player) ==
    /\ PlayerRows(player.id) # <<>>
    /\ \A i \in 1..Len(player.tests) : TestRows(player.tests[i]) # <<>>

----------------------------------------------------------------------------
(* Player methods. A Player is [id, tests]: its id and the test_ids of the *)
(* Test objects in self.tests.                                             *)

was_drafted(player) == Player_team(player.id) # "Undrafted"

RECURSIVE get_score_loop(_, _, _)
get_score_loop(tests, test_name, score) ==
    IF tests = <<>> THEN score
    ELSE get_score_loop(Tail(tests), test_name,
                        IF Test_name(Head(tests)) = test_name
                        THEN Test_value(Head(tests)) ELSE score)

get_score(player, test_name) == get_score_loop(player.tests, test_name, "")

\* population without the position filter of the position group.
population_any_pos(player, test_name, year, group) ==
    SelectSeq(Tests, LAMBDA r : r.Name = test_name /\ r.Year = year)

\* SELECT Value FROM Tests WHERE Name=? AND Year=? [AND Pos=?]
population(player, test_name, year, group) ==
    IF group # "draft_class"
    THEN SelectSeq(Tests, LAMBDA r : r.Name = test_name /\ r.Year = year
                                     /\ r.Pos = Player_pos(player.id))
    ELSE SelectSeq(Tests, LAMBDA r : r.Name = test_name /\ r.Year = year)

good_values(values) == SelectSeq(values, LAMBDA r : r.Value # "")

\* count_ge leaving one value equal to the score, the player's own, out of
\* the count.
count_ge_others(good, score_float) ==
    Cardinality({i \in 1..Len(good) : float(good[i].Value) > score_float})
    + (IF \E i \in 1..Len(good) : float(good[i].Value) = score_float
       THEN Cardinality({i \in 1..Len(good) :
                float(good[i].Value) = score_float}) - 1
       ELSE 0)

\* count_ge with a strict comparison.
count_gt(good, score_float) ==
    Cardinality({i \in 1..Len(good) : float(good[i].Value) > score_float})

count_ge(good, score_float) ==
    Cardinality({i \in 1..Len(good) : float(good[i].Value) >= score_float})

\* get_percentile returning 0.0 for an empty population.
get_percentile_zero(player, test_name, year, group) ==
    LET args == <<player.id, test_name, year, group>>
        score_str == get_score(player, test_name)
        good == good_values(population(player, test_name, year, group))
    IN  IF score_str = "DNP"
        THEN Returned("get_percentile", args, "str",
                      Player_name(player.id)
                          \o " did not take this performance test!", 0)
        ELSE IF ~IsFloat(score_str)
        THEN Raised("get_percentile", args, "ValueError")
        ELSE IF Len(good) = 0
        THEN Returned("get_percentile", args, "float", "", 0)
        ELSE Returned("get_percentile", args, "float", "",
                      round2(count_ge(good, float(score_str)), Len(good)))

get_percentile(player, test_name, year, group) ==
    LET args == <<player.id, test_name, year, group>>
        score_str == get_score(player, test_name)
        good == good_values(population(player, test_name, year, group))
    IN  IF score_str = "DNP"
        THEN Returned("get_percentile", args, "str",
                      Player_name(player.id)
                          \o " did not take this performance test!", 0)
        ELSE IF ~IsFloat(score_str)
        THEN Raised("get_percentile", args, "ValueError")
        ELSE IF \E i \in 1..Len(good) : ~IsFloat(good[i].Value)
        THEN Raised("get_percentile", args, "ValueError")
        ELSE IF Len(good) = 0
        THEN Raised("get_percentile", args, "ZeroDivisionError")
        ELSE Returned("get_percentile", args, "float", "",
                      round2(count_ge(good, float(score_str)), Len(good)))

----------------------------------------------------------------------------
(* The table builders. A row of a data frame is [status, pos, vals]: its   *)
(* "Draft Status", its "Pos" (None where the frame has no such column) and *)
(* its numeric cells.                                                      *)

\* tests: list[str] of each builder.
builder_tests ==
    {"Forty", "Vertical", "BenchReps", "BroadJump", "Cone", "Shuttle"}

\* traits: dict[str, str] = {"Height": "ht", "Weight": "wt"}
traits(player, var) ==
    IF var = "Height" THEN Player_ht(player.id) ELSE Player_wt(player.id)

\* getattr(player, traits[var]) or getattr(player, "get_score")(var)
value_of(player, var) ==
    IF var \notin builder_tests THEN traits(player, var) ELSE get_score(player, var)

\* players_of without the position filter.
players_of_any_pos(year, pos) ==
    SelectSeq(records, LAMBDA player : Player_year(player.id) = year)

\* [player for player in group if player.year == year (and player.pos == pos)]
players_of(year, pos) ==
    IF pos # None
    THEN SelectSeq(records, LAMBDA player :
             Player_year(player.id) = year /\ Player_pos(player.id) = pos)
    ELSE SelectSeq(records, LAMBDA player : Player_year(player.id) = year)

draft_status(player) == IF was_drafted(player) THEN "Drafted" ELSE "Undrafted"

row1(player, value) ==
    [status |-> draft_status(player), pos |-> None, vals |-> <<float(value)>>]

row2(player, pos, val_one, val_two) ==
    [status |-> draft_status(player), pos |-> pos,
     vals |-> <<float(val_one), float(val_two)>>]

\* The loops over the selected players: [err, rows], err "ValueError" where
\* float(value) raised.
RECURSIVE barplot_loop(_, _, _)
barplot_loop(players, var, dataframe) ==
    IF players = <<>> THEN [err |-> "", rows |-> dataframe]
    ELSE LET player == Head(players)
             value == value_of(player, var)
         IN  IF value # "DNP"
             THEN IF ~IsFloat(value)
                  THEN [err |-> "ValueError", rows |-> dataframe]
                  ELSE barplot_loop(Tail(players), var,
                                    Append(dataframe, row1(player, value)))
             ELSE barplot_loop(Tail(players), var, dataframe)

RECURSIVE histogram_loop(_, _, _)
histogram_loop(players, var, data_frame) ==
    IF players = <<>> THEN [err |-> "", rows |-> data_frame]
    ELSE LET player == Head(players)
             value == value_of(player, var)
         IN  IF value # "DNP"
             THEN IF ~IsFloat(value)
                  THEN [err |-> "ValueError", rows |-> data_frame]
                  ELSE histogram_loop(Tail(players), var,
                                      Append(data_frame, row1(player, value)))
             ELSE histogram_loop(Tail(players), var, data_frame)

RECURSIVE boxplot_loop(_, _, _)
boxplot_loop(players, var, data_frame) ==
    IF players = <<>> THEN [err |-> "", rows |-> data_frame]
    ELSE LET player == Head(players)
             value == value_of(player, var)
         IN  IF value # "DNP"
             THEN IF ~IsFloat(value)
                  THEN [err |-> "ValueError", rows |-> data_frame]
                  ELSE boxplot_loop(Tail(players), var,
                                    Append(data_frame, row1(player, value)))
             ELSE boxplot_loop(Tail(players), var, data_frame)

RECURSIVE scatterplot_loop(_, _, _, _)
scatterplot_loop(players, var_one, var_two, data_frame) ==
    IF players = <<>> THEN [err |-> "", rows |-> data_frame]
    ELSE LET player == Head(players)
             val_one == value_of(player, var_one)
             val_two == value_of(player, var_two)
         IN  IF val_one # "DNP" /\ val_two # "DNP"
             THEN IF ~IsFloat(val_one) \/ ~IsFloat(val_two)
                  THEN [err |-> "ValueError", rows |-> data_frame]
                  ELSE scatterplot_loop(Tail(players), var_one, var_two,
                           Append(data_frame,
                                  row2(player, None, val_one, val_two)))
             ELSE scatterplot_loop(Tail(players), var_one, var_two, data_frame)

RECURSIVE kmeans_loop(_, _, _, _)
kmeans_loop(players, var_one, var_two, data_frame) ==
    IF players = <<>> THEN [err |-> "", rows |-> data_frame]
    ELSE LET player == Head(players)
             val_one == value_of(player, var_one)
             val_two == value_of(player, var_two)
         IN  IF val_one # "DNP" /\ val_two # "DNP"
             THEN IF ~IsFloat(val_one) \/ ~IsFloat(val_two)
                  THEN [err |-> "ValueError", rows |-> data_frame]
                  ELSE kmeans_loop(Tail(players), var_one, var_two,
                           Append(data_frame,
                                  row2(player, Player_pos(player.id),
                                       val_one, val_two)))
             ELSE kmeans_loop(Tail(players), var_one, var_two, data_frame)

RECURSIVE gcd(_, _)
gcd(a, b) == IF b = 0 THEN a ELSE gcd(b, a % b)

RECURSIVE sum_vals(_)
sum_vals(rows) ==
    IF rows = <<>> THEN 0 ELSE Head(rows).vals[1] + sum_vals(Tail(rows))

\* groupby_mean with the sum of each group in place of its mean.
groupby_sum(dataframe) ==
    LET group(status) == SelectSeq(dataframe, LAMBDA r : r.status = status)
        entry(status) ==
            IF group(status) = <<>> THEN <<>>
            ELSE <<[status |-> status, pos |-> None,
                    vals |-> <<sum_vals(group(status)), 1>>]>>
    IN  entry("Drafted") \o entry("Undrafted")

\* dataframe.groupby(["Draft Status"], as_index=False).mean(): one row per
\* status that occurs, in sorted order; the mean is the fraction <<n, d>> in
\* lowest terms.
groupby_mean(dataframe) ==
    LET group(status) == SelectSeq(dataframe, LAMBDA r : r.status = status)
        mean(rows) ==
            LET g == gcd(sum_vals(rows), Len(rows))
            IN  <<sum_vals(rows) \div g, Len(rows) \div g>>
        entry(status) ==
            IF group(status) = <<>> THEN <<>>
            ELSE <<[status |-> status, pos |-> None,
                    vals |-> mean(group(status))]>>
    IN  entry("Drafted") \o entry("Undrafted")

barplot(var, year, pos) ==
    LET args == <<var, year, pos>>
        out == barplot_loop(players_of(year, pos), var, <<>>)
    IN  IF out.err # "" THEN TableRaised("barplot", args, out.err, out.rows)
        ELSE Table("barplot", args, <<"Draft Status", var>>,
                   groupby_mean(out.rows), out.rows)

histogram(var, year, pos) ==
    LET args == <<var, year, pos>>
        out == histogram_loop(players_of(year, pos), var, <<>>)
    IN  IF out.err # "" THEN TableRaised("histogram", args, out.err, out.rows)
        ELSE Table("histogram", args, <<"Draft Status", var>>,
                   out.rows, out.rows)

\* boxplot without the position filter.
boxplot_any_pos(var, year, pos) ==
    LET args == <<var, year, pos>>
        out == boxplot_loop(players_of(year, None), var, <<>>)
    IN  IF out.err # "" THEN TableRaised("boxplot", args, out.err, out.rows)
        ELSE Table("boxplot", args, <<"Draft Status", var>>,
                   out.rows, out.rows)

boxplot(var, year, pos) ==
    LET args == <<var, year, pos>>
        out == boxplot_loop(players_of(year, pos), var, <<>>)
    IN  IF out.err # "" THEN TableRaised("boxplot", args, out.err, out.rows)
        ELSE Table("boxplot", args, <<"Draft Status", var>>,
                   out.rows, out.rows)

scatterplot(var_one, var_two, year, pos) ==
    LET args == <<var_one, var_two, year, pos>>
        out == scatterplot_loop(players_of(year, pos), var_one, var_two, <<>>)
    IN  IF out.err # ""
        THEN TableRaised("scatterplot", args, out.err, out.rows)
        ELSE Table("scatterplot", args, <<"Draft Status", var_one, var_two>>,
                   out.rows, out.rows)

\* ConvexHull(points) needs three points for a hull in the plane.
MinHullPoints == 3

\* All points of the rows lie on one line (or there are fewer than three).
collinear(rows) ==
    \A a, b, c \in 1..Len(rows) :
        (rows[b].vals[1] - rows[a].vals[1]) * (rows[c].vals[2] - rows[a].vals[2])
            = (rows[b].vals[2] - rows[a].vals[2]) * (rows[c].vals[1] - rows[a].vals[1])

\* KMeans(n_clusters=k).fit_predict and ConvexHull per cluster are library
\* calls on the numeric cells: they raise when there are fewer rows than
\* the hulls of k clusters need or when all points lie on one line, and
\* otherwise succeed or raise depending on how the points are clustered,
\* which is not modelled. (A raise also covers plt.ylabel(var_two) after
\* an earlier barplot call, which assigns a string to plt.ylabel.)
cluster_outcomes(rows, k) ==
    IF k >= 1 /\ Len(rows) >= k * MinHullPoints /\ ~collinear(rows)
    THEN {"ok", "raise"} ELSE {"raise"}

\* kmeans returning its data frame as the loop over the players left it.
kmeans_unlabelled(var_one, var_two, year, k, pos, outcome) ==
    LET args == <<var_one, var_two, year, pos>>
        out == kmeans_loop(players_of(year, pos), var_one, var_two, <<>>)
    IN  IF out.err # "" THEN TableRaised("kmeans", args, out.err, out.rows)
        ELSE IF outcome = "raise"
        THEN TableRaised("kmeans", args, "ClusterError", out.rows)
        ELSE Table("kmeans", args, <<"Draft Status", "Pos", var_one, var_two>>,
                   out.rows, out.rows)

kmeans(var_one, var_two, year, k, pos, outcome) ==
    LET args == <<var_one, var_two, year, pos>>
        out == kmeans_loop(players_of(year, pos), var_one, var_two, <<>>)
    IN  IF out.err # "" THEN TableRaised("kmeans", args, out.err, out.rows)
        ELSE IF outcome = "raise"
        THEN TableRaised("kmeans", args, "ClusterError", out.rows)
        ELSE Table("kmeans", args,
                   <<"Draft Status", "Pos", var_one, var_two, "Cluster",
                     "Centroid_X", "Centroid_Y", "Color">>,
                   out.rows, out.rows)

----------------------------------------------------------------------------
(* parse_data. *)

\* dict_set adding a second Player for an id the dict already holds.
dict_set_append(d, id) == Append(d, [id |-> id, tests |-> <<>>])

\* player_dict[pfr_id] = Player(pfr_id): a dict keeps the position of a
\* key's first insertion and the value of its last.
dict_set(d, id) ==
    IF \E i \in 1..Len(d) : d[i].id = id
    THEN [i \in 1..Len(d) |->
            IF d[i].id = id THEN [id |-> id, tests |-> <<>>] ELSE d[i]]
    ELSE Append(d, [id |-> id, tests |-> <<>>])

RECURSIVE player_loop(_, _)
player_loop(lines, d) ==
    IF lines = <<>> THEN d
    ELSE player_loop(Tail(lines), dict_set(d, Head(lines).Pfr_ID))

player_row(temp) ==
    [ID |-> temp.Pfr_ID, Name |-> temp.Player, Pos |-> temp.Pos,
     Ht |-> temp.Ht, Wt |-> temp.Wt, Year |-> temp.Year, Team |-> temp.Team,
     Round |-> temp.Round, Pick |-> temp.Pick]

make_test_id(temp_t) == temp_t.Pfr_ID \o "_" \o temp_t.Test

test_row(temp_t) ==
    [TestID |-> make_test_id(temp_t), PlayerID |-> temp_t.Pfr_ID,
     Pos |-> temp_t.Pos, Year |-> temp_t.Year, Name |-> temp_t.Test,
     Value |-> temp_t.Value]

has_key(d, id) == \E i \in 1..Len(d) : d[i].id = id

\* add_test on a list of tests that all Players share.
add_test_shared(d, id, test_id) ==
    [i \in 1..Len(d) |-> [d[i] EXCEPT !.tests = Append(@, test_id)]]

\* player_dict[id].add_test(Test(test_id))
add_test(d, id, test_id) ==
    [i \in 1..Len(d) |->
        IF d[i].id = id THEN [d[i] EXCEPT !.tests = Append(@, test_id)]
        ELSE d[i]]

\* test_loop dropping a line whose player is unknown.
RECURSIVE test_loop_skip(_, _)
test_loop_skip(lines, d) ==
    IF lines = <<>> THEN [ok |-> TRUE, d |-> d]
    ELSE IF ~has_key(d, Head(lines).Pfr_ID)
    THEN test_loop_skip(Tail(lines), d)
    ELSE test_loop_skip(Tail(lines),
                        add_test(d, Head(lines).Pfr_ID,
                                 make_test_id(Head(lines))))

\* The loop over the test lines: [ok, d]; ok is FALSE when player_dict[...]
\* raised KeyError.
RECURSIVE test_loop(_, _)
test_loop(lines, d) ==
    IF lines = <<>> THEN [ok |-> TRUE, d |-> d]
    ELSE IF ~has_key(d, Head(lines).Pfr_ID) THEN [ok |-> FALSE, d |-> d]
    ELSE test_loop(Tail(lines),
                   add_test(d, Head(lines).Pfr_ID, make_test_id(Head(lines))))

parse_data(players, tests) == test_loop(tests, player_loop(players, <<>>))

\* The header lines of the two files, split and stripped.
player_var_list ==
    <<"Pfr_ID", "Player", "Pos", "Ht", "Wt", "Year", "Team", "Round", "Pick">>
test_var_list == <<"Pfr_ID", "Pos", "Year", "Test", "Value">>

\* A line of text is [fields, trail]: the texts between its tabs and the
\* white space that ends it. The texts and the line ends that occur:
FieldTexts ==
    {"", "A", "John", "QB", "76", "252", "2000", "NYJ", "Forty", "4.55"}
LineEnds == {"\n", " \n"}

\* aline.split("\t"): the end of the line is part of the last element.
split(aline) ==
    [i \in 1..Len(aline.fields) |->
        IF i = Len(aline.fields) THEN aline.fields[i] \o aline.trail
        ELSE aline.fields[i]]

\* str.strip(): the text without the white space at its end (no text of
\* FieldTexts starts or ends with white space).
strip(str) ==
    CHOOSE text \in FieldTexts : \E w \in LineEnds \cup {""} : str = text \o w

\* player = aline.split("\t"); player[-1] = player[-1].strip()
split_strip(aline) ==
    LET player == split(aline)
    IN  [player EXCEPT ![Len(player)] = strip(player[Len(player)])]

\* dict(zip(var_list, player)): zip stops at the shorter of the two.
zip(var_list, player) ==
    LET n == IF Len(player) < Len(var_list) THEN Len(player) ELSE Len(var_list)
    IN  [key \in {var_list[i] : i \in 1..n} |->
            player[CHOOSE i \in 1..n : var_list[i] = key]]

\* temp of every line of a file.
temps(var_list, lines) ==
    [i \in 1..Len(lines) |-> zip(var_list, split_strip(lines[i]))]

\* temp[key] raises KeyError for a key that zip did not reach.
has_all(temp, var_list) ==
    \A i \in 1..Len(var_list) : var_list[i] \in DOMAIN temp

----------------------------------------------------------------------------
(* Actions. *)

Init ==
    /\ player_file = <<>>
    /\ test_file = <<>>
    /\ Players = <<>>
    /\ Tests = <<>>
    /\ records = <<>>
    /\ pc = "write"
    /\ result = NoResult

\* The analyst's files grow by one data line.
WritePlayerLine(lines) ==
    /\ pc = "write"
    /\ Len(player_file) < MaxPlayerRows
    /\ \E line \in lines : player_file' = Append(player_file, line)
    /\ UNCHANGED <<test_file, Players, Tests, records, pc, result>>

\* The player file of a draft class large enough to be clustered.
WritePlayerLineUpTo(lines, max) ==
    /\ pc = "write"
    /\ Len(player_file) < max
    /\ \E line \in lines : player_file' = Append(player_file, line)
    /\ UNCHANGED <<test_file, Players, Tests, records, pc, result>>

WriteTestLine(lines) ==
    /\ pc = "write"
    /\ Len(test_file) < MaxTestRows
    /\ \E line \in lines : test_file' = Append(test_file, line)
    /\ UNCHANGED <<player_file, Players, Tests, records, pc, result>>

\* records = parse_data(player_filename, test_filename). DROP TABLE and
\* CREATE TABLE outside a transaction are committed at once; the INSERTs
\* (and any DROP/CREATE after the first INSERT) are committed by
\* connection.commit() only, which a KeyError skips.
ParseData ==
    /\ pc = "write"
    /\ LET out == parse_data(player_file, test_file)
       IN  IF out.ok
           THEN /\ Players' = [i \in 1..Len(player_file) |->
                                  player_row(player_file[i])]
                /\ Tests' = [i \in 1..Len(test_file) |-> test_row(test_file[i])]
                /\ records' = out.d
                /\ pc' = "ready"
                /\ result' = Returned("parse_data", <<>>, "store", "", 0)
           ELSE /\ Players' = <<>>
                /\ Tests' = IF player_file = <<>> THEN <<>> ELSE Tests
                /\ records' = records
                /\ pc' = "failed"
                /\ result' = Raised("parse_data", <<>>, "KeyError")
    /\ UNCHANGED <<player_file, test_file>>

\* records = parse_data(player_filename, test_filename) on files held as
\* lines of text. The first temp[key] on a line with fewer fields than the
\* header raises KeyError, in the player loop before the Tests table is
\* dropped, in the test loop after it.
ParseLines ==
    /\ pc = "write"
    /\ LET players == temps(player_var_list, player_file)
           tests == temps(test_var_list, test_file)
           players_ok ==
               \A i \in 1..Len(players) : has_all(players[i], player_var_list)
           tests_ok ==
               \A i \in 1..Len(tests) : has_all(tests[i], test_var_list)
       IN  IF players_ok /\ tests_ok /\ parse_data(players, tests).ok
           THEN /\ Players' = [i \in 1..Len(players) |-> player_row(players[i])]
                /\ Tests' = [i \in 1..Len(tests) |-> test_row(tests[i])]
                /\ records' = parse_data(players, tests).d
                /\ pc' = "ready"
                /\ result' = Returned("parse_data", <<>>, "store", "", 0)
           ELSE /\ Players' = <<>>
                /\ Tests' = IF players_ok /\ player_file = <<>> THEN <<>>
                            ELSE Tests
                /\ records' = records
                /\ pc' = "failed"
                /\ result' = Raised("parse_data", <<>>, "KeyError")
    /\ UNCHANGED <<player_file, test_file>>

\* The caller drops the value it was handed and is ready for another call.
Discard ==
    /\ pc = "returned"
    /\ pc' = "ready"
    /\ result' = NoResult
    /\ UNCHANGED <<player_file, test_file, Players, Tests, records>>

\* Query with a loop that takes the Tests off the lists it walks.
Query_consuming(res) ==
    /\ pc = "ready"
    /\ pc' = "returned"
    /\ result' = res
    /\ records' = [i \in 1..Len(records) |-> [records[i] EXCEPT !.tests = <<>>]]
    /\ UNCHANGED <<player_file, test_file, Players, Tests>>

Query(res) ==
    /\ pc = "ready"
    /\ pc' = "returned"
    /\ result' = res
    /\ UNCHANGED <<player_file, test_file, Players, Tests, records>>

GetScore ==
    \E i \in 1..Len(records), test_name \in TestNames :
        Query(IF Readable(records[i])
              THEN Returned("get_score", <<records[i].id, test_name>>, "str",
                            get_score(records[i], test_name), 0)
              ELSE Raised("get_score", <<records[i].id, test_name>>,
                          "IndexError"))

WasDrafted ==
    \E i \in 1..Len(records) :
        Query(IF Readable(records[i])
              THEN Returned("was_drafted", <<records[i].id>>, "bool",
                            IF was_drafted(records[i]) THEN "True" ELSE "False",
                            0)
              ELSE Raised("was_drafted", <<records[i].id>>, "IndexError"))

GetPercentile ==
    \E i \in 1..Len(records), test_name \in TestNames, year \in Years,
       group \in {"draft_class", "pos_group"} :
        Query(IF Readable(records[i])
              THEN get_percentile(records[i], test_name, year, group)
              ELSE Raised("get_percentile",
                          <<records[i].id, test_name, year, group>>,
                          "IndexError"))

\* records[id].pos, .ht, .wt, .year
PlayerAttrs == {"pos", "ht", "wt", "year"}

PlayerAttr ==
    \E i \in 1..Len(records), attr \in PlayerAttrs :
        Query(IF PlayerRows(records[i].id) # <<>>
              THEN Returned(attr, <<records[i].id>>, "str",
                            CASE attr = "pos" -> Player_pos(records[i].id)
                              [] attr = "ht" -> Player_ht(records[i].id)
                              [] attr = "wt" -> Player_wt(records[i].id)
                              [] attr = "year" -> Player_year(records[i].id),
                            0)
              ELSE Raised(attr, <<records[i].id>>, "IndexError"))

\* records[id].tests[j].name, .value, .year
TestAttrs == {"Test.name", "Test.value", "Test.year"}

TestAttr ==
    \E i \in 1..Len(records), attr \in TestAttrs :
        \E j \in 1..Len(records[i].tests) :
            LET test_id == records[i].tests[j]
                args == <<records[i].id, test_id>>
            IN  Query(IF TestRows(test_id) # <<>>
                      THEN Returned(attr, args, "str",
                               CASE attr = "Test.name" -> Test_name(test_id)
                                 [] attr = "Test.value" -> Test_value(test_id)
                                 [] attr = "Test.year" -> Test_year(test_id),
                               0)
                      ELSE Raised(attr, args, "IndexError"))

\* The tables hold the rows of the files as they are now: no parse_data
\* call on other files has been made since the store was built.
FirstStore ==
    /\ Players = [i \in 1..Len(player_file) |-> player_row(player_file[i])]
    /\ Tests = [i \in 1..Len(test_file) |-> test_row(test_file[i])]

\* The analyst starts other files, keeping the store already built.
NewFiles ==
    /\ pc = "ready"
    /\ FirstStore
    /\ player_file' = <<>>
    /\ test_file' = <<>>
    /\ pc' = "write"
    /\ UNCHANGED <<Players, Tests, records, result>>

\* other = parse_data(player_filename, test_filename), the caller still
\* holding `records` from the earlier call: the tables of the one database
\* file are dropped and filled again.
ParseOther ==
    /\ pc = "write"
    /\ records # <<>>
    /\ LET out == parse_data(player_file, test_file)
       IN  IF out.ok
           THEN /\ Players' = [i \in 1..Len(player_file) |->
                                  player_row(player_file[i])]
                /\ Tests' = [i \in 1..Len(test_file) |-> test_row(test_file[i])]
                /\ pc' = "ready"
                /\ result' = Returned("parse_data", <<>>, "store", "", 0)
           ELSE /\ Players' = <<>>
                /\ Tests' = IF player_file = <<>> THEN <<>> ELSE Tests
                /\ pc' = "failed"
                /\ result' = Raised("parse_data", <<>>, "KeyError")
    /\ UNCHANGED <<player_file, test_file, records>>

\* The values a caller passes as an id, as <<type, repr>>.
IdValues ==
    {<<"str", "A">>, <<"str", "A_B">>, <<"int", "7">>, <<"NoneType", "None">>}

\* isinstance(id, str)
isinstance_str(v) == v[1] = "str"

\* The id setter storing the value before it checks its type.
id_setter_late(old, v) ==
    [ok |-> isinstance_str(v), id |-> v[2]]

\* Player.id.setter, run on an object whose _id is `old` (None for an
\* object under construction): [ok, id], ok FALSE where ValueError is
\* raised.
id_setter(old, v) ==
    IF isinstance_str(v) THEN [ok |-> TRUE, id |-> v[2]]
    ELSE [ok |-> FALSE, id |-> old]

\* Test.test_id.setter
test_id_setter(old, v) ==
    IF isinstance_str(v) THEN [ok |-> TRUE, id |-> v[2]]
    ELSE [ok |-> FALSE, id |-> old]

\* Player(v): the setter runs in __init__, so a raise leaves no object.
NewPlayer ==
    \E v \in IdValues :
        LET out == id_setter(None, v)
        IN  Query(IF out.ok THEN Returned("Player", <<v[1], v[2]>>, "object",
                                          out.id, 0)
                  ELSE Raised("Player", <<v[1], v[2]>>, "ValueError"))

\* Test(v)
NewTest ==
    \E v \in IdValues :
        LET out == test_id_setter(None, v)
        IN  Query(IF out.ok THEN Returned("Test", <<v[1], v[2]>>, "object",
                                          out.id, 0)
                  ELSE Raised("Test", <<v[1], v[2]>>, "ValueError"))

\* records[key].id = v
SetPlayerId ==
    /\ pc = "ready"
    /\ \E i \in 1..Len(records), v \in IdValues :
          LET out == id_setter(records[i].id, v)
              args == <<records[i].id, v[1], v[2]>>
          IN  /\ records' = [records EXCEPT ![i].id = out.id]
              /\ result' = IF out.ok
                            THEN Returned("Player.id", args, "none", "", 0)
                            ELSE Raised("Player.id", args, "ValueError")
    /\ pc' = "returned"
    /\ UNCHANGED <<player_file, test_file, Players, Tests>>

\* records[key].tests[j].test_id = v
SetTestId ==
    /\ pc = "ready"
    /\ \E i \in 1..Len(records), v \in IdValues :
          \E j \in 1..Len(records[i].tests) :
              LET out == test_id_setter(records[i].tests[j], v)
                  args == <<records[i].tests[j], v[1], v[2]>>
              IN  /\ records' = [records EXCEPT ![i].tests[j] = out.id]
                  /\ result' = IF out.ok
                                THEN Returned("Test.test_id", args, "none",
                                              "", 0)
                                ELSE Raised("Test.test_id", args, "ValueError")
    /\ pc' = "returned"
    /\ UNCHANGED <<player_file, test_file, Players, Tests>>

\* The variables, years, positions and cluster counts the analyst asks for.
SingleVars == {"Height", "Forty"}
VarPairs == {<<"Forty", "Vertical">>, <<"Height", "Forty">>}
PosArgs == Positions \cup {None}
Ks == {2}

\* A builder reads year and pos of every Player of the store.
AllReadable == \A i \in 1..Len(records) : Readable(records[i])

Barplot ==
    \E var \in SingleVars, year \in Years, pos \in PosArgs :
        Query(IF AllReadable THEN barplot(var, year, pos)
              ELSE Raised("barplot", <<var, year, pos>>, "IndexError"))

Histogram ==
    \E var \in SingleVars, year \in Years, pos \in PosArgs :
        Query(IF AllReadable THEN histogram(var, year, pos)
              ELSE Raised("histogram", <<var, year, pos>>, "IndexError"))

Boxplot ==
    \E var \in SingleVars, year \in Years, pos \in PosArgs :
        Query(IF AllReadable THEN boxplot(var, year, pos)
              ELSE Raised("boxplot", <<var, year, pos>>, "IndexError"))

ScatterplotOf(pairs) ==
    \E vp \in pairs, year \in Years, pos \in PosArgs :
        Query(IF AllReadable THEN scatterplot(vp[1], vp[2], year, pos)
              ELSE Raised("scatterplot", <<vp[1], vp[2], year, pos>>,
                          "IndexError"))

Scatterplot == ScatterplotOf(VarPairs)

KmeansOf(pairs, ks) ==
    /\ pc = "ready"
    /\ \E vp \in pairs, year \in Years, pos \in PosArgs, k \in ks :
          \E outcome \in
                IF AllReadable
                THEN cluster_outcomes(
                         kmeans_loop(players_of(year, pos), vp[1], vp[2],
                                     <<>>).rows, k)
                ELSE {"raise"} :
              Query(IF AllReadable
                    THEN kmeans(vp[1], vp[2], year, k, pos, outcome)
                    ELSE Raised("kmeans", <<vp[1], vp[2], year, pos>>,
                                "IndexError"))

Kmeans == KmeansOf(VarPairs, Ks)

Next ==
    \/ WritePlayerLine(ScorePlayerLines)
    \/ WriteTestLine(ScoreTestLines)
    \/ ParseData
    \/ Discard
    \/ GetScore
    \/ GetPercentile

Spec == Init /\ [][Next]_vars

TableNext ==
    \/ WritePlayerLine(TablePlayerLines)
    \/ WriteTestLine(TableTestLines)
    \/ ParseData
    \/ Discard
    \/ WasDrafted
    \/ PlayerAttr
    \/ Barplot
    \/ Histogram
    \/ Boxplot
    \/ Scatterplot
    \/ Kmeans

TableSpec == Init /\ [][TableNext]_vars

\* The lines written under QuerySpec, which asks every query of one store:
\* the player lines of one position and one year, and the lines of one
\* test at that position and year with every value.
QueryPlayerLines == {l \in PlayerLines : l.Pos = "QB" /\ l.Year = "2000"}
QueryTestLines ==
    {l \in TestLines : l.Pos = "QB" /\ l.Year = "2000" /\ l.Test = "Forty"}

QueryNext ==
    \/ WritePlayerLine(QueryPlayerLines)
    \/ WriteTestLine(QueryTestLines)
    \/ ParseData
    \/ Discard
    \/ GetScore
    \/ WasDrafted
    \/ GetPercentile
    \/ Barplot
    \/ Histogram
    \/ Boxplot
    \/ Scatterplot
    \/ Kmeans

QuerySpec == Init /\ [][QueryNext]_vars

\* The lines written under SessionSpec, in which parse_data is called a
\* second time on other files: the line of one player, and the lines of one
\* of its tests with every value.
SessionPlayerLines ==
    {l \in PlayerLines :
        l.Pfr_ID = "A" /\ l.Pos = "QB" /\ l.Year = "2000" /\ l.Team = "NYJ"}
SessionTestLines ==
    {l \in TestLines :
        l.Pfr_ID = "A" /\ l.Pos = "QB" /\ l.Year = "2000" /\ l.Test = "Forty"}

SessionNext ==
    \/ WritePlayerLine(SessionPlayerLines)
    \/ WriteTestLine(SessionTestLines)
    \/ ParseData
    \/ NewFiles
    \/ ParseOther
    \/ Discard
    \/ TestAttr
    \/ GetScore
    \/ GetPercentile

SessionSpec == Init /\ [][SessionNext]_vars

\* The lines written under IdSpec, which is about the ids of Tests: ids
\* and test names are free text and may hold the "_" that parse_data puts
\* between them.
IdPlayerLines ==
    [Pfr_ID : {"A", "A_B"}, Player : {"John"}, Pos : {"QB"}, Ht : {"76"},
     Wt : {"252"}, Year : {"2000"}, Team : {"NYJ"}, Round : {""}, Pick : {""}]
IdTestLines ==
    [Pfr_ID : {"A", "A_B"}, Pos : {"QB"}, Year : {"2000"},
     Test : {"Forty", "B_Forty"}, Value : {"4.55", "4.72"}]

IdNext ==
    \/ WritePlayerLine(IdPlayerLines)
    \/ WriteTestLine(IdTestLines)
    \/ ParseData
    \/ Discard
    \/ TestAttr
    \/ GetScore

IdSpec == Init /\ [][IdNext]_vars

\* The lines written under ObjectSpec, in which Players and Tests are
\* constructed and their ids assigned to: the line of one player and the
\* line of one test.
ObjectPlayerLines == {l \in IdPlayerLines : l.Pfr_ID = "A"}
ObjectTestLines ==
    {l \in IdTestLines :
        l.Pfr_ID = "A" /\ l.Test = "Forty" /\ l.Value = "4.55"}

ObjectNext ==
    \/ WritePlayerLine(ObjectPlayerLines)
    \/ WriteTestLine(ObjectTestLines)
    \/ ParseData
    \/ Discard
    \/ GetScore
    \/ NewPlayer
    \/ NewTest
    \/ SetPlayerId
    \/ SetTestId

ObjectSpec == Init /\ [][ObjectNext]_vars

\* The lines written under ClusterSpec, in which a draft class is large
\* enough for kmeans to draw a hull: the lines of three players of one
\* position, year and team, whose height and weight are three points not
\* on one line. No test line is written: the tables are of height and
\* weight.
MaxClusterRows == 3
ClusterIds == {"A", "B", "C"}
ClusterPlayerLines ==
    {l \in [Pfr_ID : ClusterIds, Player : {"John"}, Pos : {"QB"},
            Ht : {"74", "76"}, Wt : {"252", "260"}, Year : {"2000"},
            Team : {"NYJ"}, Round : {""}, Pick : {""}] :
        ~(l.Ht = "74" /\ l.Wt = "260")}
ClusterPairs == {<<"Height", "Weight">>}
ClusterKs == {1, 2}

ClusterNext ==
    \/ WritePlayerLineUpTo(ClusterPlayerLines, MaxClusterRows)
    \/ ParseData
    \/ Discard
    \/ Barplot
    \/ Histogram
    \/ Boxplot
    \/ ScatterplotOf(ClusterPairs)
    \/ KmeansOf(ClusterPairs, ClusterKs)

ClusterSpec == Init /\ [][ClusterNext]_vars

\* The lines written under LineSpec, in which the files are held as lines
\* of text: the line of one player and one of its tests, whole or cut
\* after the year, with each line end.
LinePlayerLines ==
    {[fields |-> SubSeq(<<"A", "John", "QB", "76", "252", "2000", team, "", "">>,
                        1, n),
      trail |-> w] : team \in Teams, n \in {6, 9}, w \in LineEnds}
LineTestLines ==
    {[fields |-> SubSeq(<<"A", "QB", "2000", "Forty", value>>, 1, n),
      trail |-> w] : value \in {"", "4.55"}, n \in {3, 5}, w \in LineEnds}

LineNext ==
    \/ WritePlayerLine(LinePlayerLines)
    \/ WriteTestLine(LineTestLines)
    \/ ParseLines
    \/ Discard
    \/ PlayerAttr
    \/ TestAttr
    \/ GetScore

LineSpec == Init /\ [][LineNext]_vars

----------------------------------------------------------------------------
(* The claims, stated on the raw rows of the tables and the value of the   *)
(* last call.                                                              *)

\* The Player of the store with this id.
PlayerOf(id) == records[CHOOSE i \in 1..Len(records) : records[i].id = id]

Least(S) == CHOOSE i \in S : \A j \in S : i <= j

\* The rows of Tests written for this player and this test name.
OwnRows(id, test_name) ==
    {i \in 1..Len(Tests) :
        Tests[i].PlayerID = id /\ Tests[i].Name = test_name}

\* The player did not take the test: no row for it, or only empty values.
NotTaken(id, test_name) ==
    \A i \in OwnRows(id, test_name) : Tests[i].Value = ""

\* The position on the player's row of Players.
RowPos(id) ==
    Players[Least({i \in 1..Len(Players) : Players[i].ID = id})].Pos

\* The comparison population of a percentile, as indices of Tests.
ClaimPopulation(id, test_name, year, group) ==
    {i \in 1..Len(Tests) :
        /\ Tests[i].Name = test_name
        /\ Tests[i].Year = year
        /\ group = "pos_group" => Tests[i].Pos = RowPos(id)}

NonEmpty(pop) == {i \in pop : Tests[i].Value # ""}

AtLeast(pop, s) == {i \in NonEmpty(pop) : float(Tests[i].Value) >= float(s)}

PercentileCall == result.op = "get_percentile"
PctId == result.args[1]
PctTest == result.args[2]
PctYear == result.args[3]
PctGroup == result.args[4]
PctScore == get_score(PlayerOf(PctId), PctTest)
PctPop == ClaimPopulation(PctId, PctTest, PctYear, PctGroup)

\* C1: for a player with a numeric score s, get_percentile returns
\* round(100 * k / n, 2), n the number of non-empty values among the test
\* rows of that name and year (and of the player's position under
\* "pos_group"), k the number of those that are >= s.
C1_Percentile ==
    (PercentileCall /\ IsFloat(PctScore) /\ NonEmpty(PctPop) # {}) =>
        LET n == Cardinality(NonEmpty(PctPop))
            k == Cardinality(AtLeast(PctPop, PctScore))
            d == result.num * n - 10000 * k
        IN  /\ result.kind = "float"
            /\ 2 * (IF d < 0 THEN -d ELSE d) <= n

\* C1 witness: a position-group percentile of 50.0, one of two values
\* being at least the player's.
C1_Witness ==
    /\ PercentileCall
    /\ PctGroup = "pos_group"
    /\ result.kind = "float"
    /\ result.num = 5000
    /\ Cardinality(NonEmpty(PctPop)) = 2

\* C2 (as claimed): get_percentile for a test the player did not take (no
\* test of that name, or an empty value) returns a string and does not
\* raise.
C2_Claim ==
    (PercentileCall /\ NotTaken(PctId, PctTest)) => result.kind = "str"

ScoreCall == result.op = "get_score"

\* C3 (as claimed): get_score returns "DNP" and raises nothing both when
\* the player owns no test of that name and when its value is empty.
C3_Claim ==
    (ScoreCall /\ NotTaken(result.args[1], result.args[2])) =>
        (result.kind = "str" /\ result.str = "DNP")

\* C4: for a player owning a test of that name, get_score returns the
\* stored value string of the first such test of the player (as the Test
\* shows it), so the stored string itself when that value is not empty.
C4_FirstValue ==
    (ScoreCall /\ OwnRows(result.args[1], result.args[2]) # {}) =>
        LET first == Tests[Least(OwnRows(result.args[1], result.args[2]))]
        IN  /\ result.kind = "str"
            /\ first.Value # "" => result.str = first.Value
            /\ first.Value = "" => result.str = "DNP"

\* C4 witness: get_score returned the first of two different values
\* recorded for the same player and test.
C4_Witness ==
    /\ ScoreCall
    /\ Cardinality(OwnRows(result.args[1], result.args[2])) = 2
    /\ \A i \in OwnRows(result.args[1], result.args[2]) : Tests[i].Value # ""
    /\ \E i, j \in OwnRows(result.args[1], result.args[2]) :
          /\ i < j
          /\ Tests[i].Value # Tests[j].Value
          /\ result.str = Tests[i].Value

\* C6: with a numeric score and a comparison population that has no
\* non-empty value, get_percentile raises the division-by-zero error and
\* returns no number.
C6_EmptyPopulation ==
    (PercentileCall /\ IsFloat(PctScore) /\ NonEmpty(PctPop) = {}) =>
        (result.kind = "raise" /\ result.err = "ZeroDivisionError")

\* C6 witness: the player has a score, asked about a year with no rows.
C6_Witness ==
    /\ PercentileCall
    /\ IsFloat(PctScore)
    /\ PctPop = {}
    /\ result.err = "ZeroDivisionError"

\* The player's own value is recorded in the draft class asked about.
InClass ==
    \E i \in PctPop : Tests[i].PlayerID = PctId /\ Tests[i].Value = PctScore

\* C7 (as claimed): a player with the single highest value of the draft
\* class gets 100.0 under "draft_class".
C7_Claim ==
    (/\ PercentileCall
     /\ PctGroup = "draft_class"
     /\ IsFloat(PctScore)
     /\ InClass
     /\ \A i \in NonEmpty(PctPop) :
           \/ Tests[i].PlayerID = PctId /\ Tests[i].Value = PctScore
           \/ float(Tests[i].Value) < float(PctScore)) =>
        (result.kind = "float" /\ result.num = 10000)

\* C7 (amended): a player whose value is the lowest of the draft class,
\* every non-empty value of that test and year being >= it, gets 100.0
\* under "draft_class".
C7_Lowest ==
    (/\ PercentileCall
     /\ PctGroup = "draft_class"
     /\ IsFloat(PctScore)
     /\ InClass
     /\ \A i \in NonEmpty(PctPop) :
           float(Tests[i].Value) >= float(PctScore)) =>
        (result.kind = "float" /\ result.num = 10000)

\* C7 witness: 100.0 for a player whose value is strictly below another
\* one of the class.
C7_Witness ==
    /\ PercentileCall
    /\ PctGroup = "draft_class"
    /\ IsFloat(PctScore)
    /\ InClass
    /\ \E i \in NonEmpty(PctPop) : float(Tests[i].Value) > float(PctScore)
    /\ result.kind = "float"
    /\ result.num = 10000

\* A test line names a player the player file has no line for.
Orphan ==
    \E i \in 1..Len(test_file) :
        \A j \in 1..Len(player_file) :
            player_file[j].Pfr_ID # test_file[i].Pfr_ID

\* C8: parse_data on a test line with an unknown player id raises and hands
\* no store to the caller.
C8_OrphanFails ==
    (pc # "write" /\ Orphan) =>
        /\ pc = "failed"
        /\ result.op = "parse_data"
        /\ result.kind = "raise"
        /\ records = <<>>

\* C8 witness: parse_data raised on the second test line after it had
\* ingested a player and the first test line.
C8_Witness ==
    /\ pc = "failed"
    /\ result.kind = "raise"
    /\ Len(test_file) = 2
    /\ \E j \in 1..Len(player_file) :
          player_file[j].Pfr_ID = test_file[1].Pfr_ID
    /\ \A j \in 1..Len(player_file) :
          player_file[j].Pfr_ID # test_file[2].Pfr_ID

\* The fields on the player's row of Players.
RowOf(id) == Players[Least({i \in 1..Len(Players) : Players[i].ID = id})]

Builders == {"barplot", "histogram", "boxplot", "scatterplot", "kmeans"}
TableCall == result.op \in Builders

\* The variables, the year and the position a builder was asked for.
TblVars ==
    IF result.op \in {"scatterplot", "kmeans"}
    THEN {result.args[1], result.args[2]} ELSE {result.args[1]}
TblYear == result.args[Len(result.args) - 1]
TblPos == result.args[Len(result.args)]

\* The players of the store with the requested year and position.
Selected ==
    {i \in 1..Len(records) :
        /\ RowOf(records[i].id).Year = TblYear
        /\ TblPos # None => RowOf(records[i].id).Pos = TblPos}

\* The player did not take one of the requested tests.
Missing(i) ==
    \E var \in TblVars \cap builder_tests : NotTaken(records[i].id, var)

\* C5 (as claimed): a builder does not fail on a player who lacks one of
\* the requested scores (no test row, or an empty value), and its table
\* has no row for that player: one row per other selected player.
C5_Claim ==
    TableCall =>
        /\ result.err # "ValueError"
        /\ Len(result.rows) = Cardinality({i \in Selected : ~Missing(i)})

\* C9: was_drafted() is true exactly when the team field of the player's
\* row is neither empty nor "Undrafted".
C9_Drafted ==
    result.op = "was_drafted" =>
        /\ result.kind = "bool"
        /\ result.str = "True" <=>
              RowOf(result.args[1]).Team \notin {"", "Undrafted"}

\* C9 witness: was_drafted() was False for a player with an empty team.
C9_Witness ==
    /\ result.op = "was_drafted"
    /\ result.str = "False"
    /\ RowOf(result.args[1]).Team = ""

\* The selected players with no "DNP" among the requested variables.
Included ==
    {i \in Selected :
        \A var \in TblVars : value_of(records[i], var) # "DNP"}

\* The j-th element of a set of indices.
Nth(S, j) == CHOOSE i \in S : Cardinality({m \in S : m < i}) = j - 1

\* The loop over the players of a builder ran to its end.
RowsBuilt == TableCall /\ result.err \in {"", "ClusterError"}

\* C10: the rows of a table are, one each and in the order of the store,
\* the players of the requested year (and position, when given) with no
\* "DNP" among the requested variables, tagged "Drafted" where
\* was_drafted() is true and "Undrafted" otherwise.
C10_Rows ==
    RowsBuilt =>
        /\ Len(result.rows) = Cardinality(Included)
        /\ \A j \in 1..Len(result.rows) :
              result.rows[j].status =
                  IF was_drafted(records[Nth(Included, j)])
                  THEN "Drafted" ELSE "Undrafted"

\* C10 witness: a table asked for one position has one row, the store
\* holding a second player of that year, with no "DNP", at another
\* position.
C10_Witness ==
    /\ TableCall
    /\ result.kind = "table"
    /\ TblPos # None
    /\ Len(result.rows) = 1
    /\ \E i \in 1..Len(records) :
          /\ RowOf(records[i].id).Year = TblYear
          /\ RowOf(records[i].id).Pos # TblPos
          /\ \A var \in TblVars : value_of(records[i], var) # "DNP"

\* The selected players of one draft status with no "DNP" in the variable.
Group(status) ==
    {i \in Included :
        (RowOf(records[i].id).Team \notin {"", "Undrafted"})
            <=> (status = "Drafted")}

\* The sum of the variable, in hundredths, over a set of players.
RECURSIVE SumOver(_, _)
SumOver(S, var) ==
    IF S = {} THEN 0
    ELSE LET i == Least(S)
         IN  float(value_of(records[i], var)) + SumOver(S \ {i}, var)

\* The entries of the grouped mean for one draft status.
Entries(status) ==
    {j \in 1..Len(result.frame) : result.frame[j].status = status}

\* C11: the grouped mean barplot returns has, for each draft status with at
\* least one row in the filtered non-DNP table, exactly one entry, whose
\* value n/d is the arithmetic mean of that status's values, and has no
\* entry for a status with no row.
C11_GroupedMean ==
    (result.op = "barplot" /\ result.kind = "table") =>
        /\ \A j \in 1..Len(result.frame) :
              result.frame[j].status \in {"Drafted", "Undrafted"}
        /\ \A status \in {"Drafted", "Undrafted"} :
              IF Group(status) = {} THEN Entries(status) = {}
              ELSE /\ Cardinality(Entries(status)) = 1
                   /\ LET mean == result.frame[Least(Entries(status))].vals
                      IN  /\ mean[2] > 0
                          /\ mean[1] * Cardinality(Group(status)) =
                                mean[2] * SumOver(Group(status), result.args[1])

\* C11 witness: two "Drafted" rows 4.55 and 4.72 and no "Undrafted" row
\* give the single entry Drafted: 4.635 (927/2 hundredths).
C11_Witness ==
    /\ result.op = "barplot"
    /\ result.kind = "table"
    /\ result.args[1] = "Forty"
    /\ Cardinality(Group("Drafted")) = 2
    /\ Group("Undrafted") = {}
    /\ result.frame =
          <<[status |-> "Drafted", pos |-> None, vals |-> <<927, 2>>]>>

AttrCall == result.op \in PlayerAttrs /\ result.kind # "raise"

\* The field of a player line that an attribute of the Player reads back.
FieldOf(line, attr) ==
    CASE attr = "pos" -> line.Pos
      [] attr = "ht" -> line.Ht
      [] attr = "wt" -> line.Wt
      [] attr = "year" -> line.Year

\* The lines of the ingested player file that carry this id.
LinesOf(id) == {j \in 1..Len(player_file) : player_file[j].Pfr_ID = id}

\* C12 (as claimed): the Player stored under an id reads back the
\* position, height, weight and year of every ingested row with that id,
\* rows that share the id with another row included.
C12_Claim ==
    AttrCall =>
        \A j \in LinesOf(result.args[1]) :
            result.str = FieldOf(player_file[j], result.op)

\* C12 (amended): the Player stored under an id reads back the fields of
\* the first ingested row with that id.
C12_FirstRow ==
    result.op \in PlayerAttrs =>
        /\ result.kind = "str"
        /\ result.str =
              FieldOf(player_file[Least(LinesOf(result.args[1]))], result.op)

\* C12 witness: the position read back is that of the first of two rows
\* that share the id and differ in position.
C12_Witness ==
    /\ AttrCall
    /\ result.op = "pos"
    /\ Cardinality(LinesOf(result.args[1])) = 2
    /\ \E j \in LinesOf(result.args[1]) : player_file[j].Pos # result.str
    /\ result.str = player_file[1].Pos

\* The Tests the caller holds: <<i, j>> for records[i].tests[j].
HeldTests ==
    {ij \in (1..Len(records)) \X (1..MaxTestRows) :
        ij[2] <= Len(records[ij[1]].tests)}

\* What is observed through a Test: its name, value and year, or that the
\* read raises.
Observed(test_id) ==
    IF TestRows(test_id) = <<>> THEN <<"IndexError">>
    ELSE <<Test_name(test_id), Test_value(test_id), Test_year(test_id)>>

\* C13 (as claimed): the name, value and year observed through a Test the
\* caller holds are the same after every operation, a further parse_data
\* call on other files included.
C13_Claim ==
    [][records' = records =>
          \A ij \in HeldTests :
              Observed(records[ij[1]].tests[ij[2]])' =
                  Observed(records[ij[1]].tests[ij[2]])]_vars

\* parse_data has handed over the store of the files as they are.
Ingested == pc \in {"ready", "returned"} /\ FirstStore

\* The rows of the test file that carry this player id, in file order.
TestLinesOf(id) == SelectSeq(test_file, LAMBDA l : l.Pfr_ID = id)

\* C14: after a successful parse_data the test list of each Player holds,
\* in file order, one Test for each test row carrying the Player's id and
\* nothing else, so the lists together hold one Test per test row.
C14_OwnTests ==
    Ingested =>
        /\ \A i \in 1..Len(records) :
              /\ Len(records[i].tests) = Len(TestLinesOf(records[i].id))
              /\ \A j \in 1..Len(records[i].tests) :
                    records[i].tests[j] =
                        TestLinesOf(records[i].id)[j].Pfr_ID \o "_"
                            \o TestLinesOf(records[i].id)[j].Test
        /\ \A i, k \in 1..Len(records) :
              i # k =>
                  \A j \in 1..Len(records[i].tests) :
                      \A m \in 1..Len(records[k].tests) :
                          records[i].tests[j] # records[k].tests[m]

\* C14 witness: two Players, each with the one Test of its own row.
C14_Witness ==
    /\ Ingested
    /\ Len(records) = 2
    /\ Len(test_file) = 2
    /\ test_file[1].Pfr_ID # test_file[2].Pfr_ID
    /\ \A i \in 1..2 : Len(records[i].tests) = 1

\* The store as parse_data has it after the lines of the player file and
\* the first k lines of the test file.
StoreAfter(k) ==
    test_loop(SubSeq(test_file, 1, k), player_loop(player_file, <<>>)).d

IsPrefix(s, t) == Len(s) <= Len(t) /\ s = SubSeq(t, 1, Len(s))

\* Store `after` has the Players of store `before`, at the same places and
\* with the same ids, each test list unchanged or longer at its end.
Grown(before, after) ==
    /\ Len(after) = Len(before)
    /\ \A i \in 1..Len(before) :
          /\ after[i].id = before[i].id
          /\ IsPrefix(before[i].tests, after[i].tests)

\* As parse_data returns it, the store has exactly one Player for each id
\* of the player file; every test list is empty when the first test line
\* is read, and each test line leaves the Players in place and appends one
\* Test.
C15_Store ==
    (Ingested /\ result.op = "parse_data") =>
        LET store == [k \in 0..Len(test_file) |-> StoreAfter(k)]
        IN  /\ \A i, k \in 1..Len(records) :
                  records[i].id = records[k].id => i = k
            /\ {records[i].id : i \in 1..Len(records)} =
                  {player_file[j].Pfr_ID : j \in 1..Len(player_file)}
            /\ \A i \in 1..Len(store[0]) : store[0][i].tests = <<>>
            /\ \A k \in 1..Len(test_file) :
                  /\ Grown(store[k - 1], store[k])
                  /\ Cardinality({i \in 1..Len(store[k]) :
                          Len(store[k][i].tests) =
                              Len(store[k - 1][i].tests) + 1}) = 1
            /\ records = store[Len(test_file)]

\* C15: each player row has exactly one Player in the returned store, one
\* per unique id, whose test list starts empty and changes only by
\* appending Tests; and no operation on the store removes a Player or
\* puts a fresh one in its place.
C15_Lifecycle ==
    /\ []C15_Store
    /\ [][(pc \in {"ready", "returned"}) => Grown(records, records')]_vars

\* C15 witness: a query has returned on a store that holds one Player,
\* with both Tests, for two player rows that share its id.
C15_Witness ==
    /\ pc = "returned"
    /\ Len(player_file) = 2
    /\ player_file[1].Pfr_ID = player_file[2].Pfr_ID
    /\ Len(records) = 1
    /\ Len(records[1].tests) = 2

\* The row of Tests written for the j-th Test of records[i]: the j-th row
\* that carries the Player's id.
OwnRow(i, j) ==
    SelectSeq(Tests, LAMBDA r : r.PlayerID = records[i].id)[j]

\* C16 (as claimed): two test rows that differ in player id or in test
\* name never have the same test id, and what is read through a Test by
\* its id is the name, value and year of its own row.
C16_Claim ==
    (Ingested /\ records = parse_data(player_file, test_file).d) =>
        /\ \A r, q \in 1..Len(Tests) :
              (Tests[r].PlayerID # Tests[q].PlayerID
                   \/ Tests[r].Name # Tests[q].Name) =>
                  Tests[r].TestID # Tests[q].TestID
        /\ \A ij \in HeldTests :
              Observed(records[ij[1]].tests[ij[2]]) =
                  <<OwnRow(ij[1], ij[2]).Name,
                    IF OwnRow(ij[1], ij[2]).Value = "" THEN "DNP"
                    ELSE OwnRow(ij[1], ij[2]).Value,
                    OwnRow(ij[1], ij[2]).Year>>

\* The last call constructed a Player or a Test, or assigned to an id.
IdOps == {"Player", "Test", "Player.id", "Test.test_id"}

\* The type of the value the last call was given as an id.
IdType == result.args[Len(result.args) - 1]

\* C17: constructing a Player or a Test with a non-string id, or assigning
\* a non-string value to the id of one, raises the validation error
\* (ValueError) and leaves every id as it was.
C17_Validation ==
    [][(result'.op \in IdOps /\ pc = "ready" /\ IdType' # "str") =>
          /\ result'.kind = "raise"
          /\ result'.err = "ValueError"
          /\ records' = records]_vars

\* C17 witness: assigning a non-string to the id of a Player of the store
\* raised, and the Player still has the id it had.
C17_Witness ==
    /\ result.op = "Player.id"
    /\ IdType # "str"
    /\ result.err = "ValueError"
    /\ \E i \in 1..Len(records) : records[i].id = result.args[1]

\* A step that leaves every Player of the store with the id it had.
IdsKept ==
    /\ Len(records') = Len(records)
    /\ \A i \in 1..Len(records) : records'[i].id = records[i].id

\* C18 (as claimed): no operation on a Player, assigning another string to
\* its id included, changes the id the Player was constructed with.
C18_Claim == [][(pc \in {"ready", "returned"}) => IdsKept]_vars

QueryOps == {"get_score", "was_drafted", "get_percentile"} \cup Builders

\* C20: a call of get_score, was_drafted, get_percentile or a table
\* builder, whether it returns or raises, leaves the Players of the store,
\* their ordered test lists and the rows of both tables as they were.
C20_Frame ==
    [][(result'.op \in QueryOps) =>
          /\ records' = records
          /\ Players' = Players
          /\ Tests' = Tests]_vars

\* C20 witness: a table builder raised on a store of two Players, one of
\* them with a Test, and the store is as parse_data built it.
C20_Witness ==
    /\ TableCall
    /\ result.err = "ValueError"
    /\ Len(records) = 2
    /\ \E i \in 1..2 : records[i].tests # <<>>
    /\ records = parse_data(player_file, test_file).d
    /\ FirstStore

\* The single-variable and the two-variable builders.
SingleBuilders == {"barplot", "histogram", "boxplot"}
ColumnsOfVars ==
    IF result.op \in SingleBuilders
    THEN <<"Draft Status", result.args[1]>>
    ELSE <<"Draft Status", result.args[1], result.args[2]>>

StoredFields ==
    {Players[i][c] : i \in 1..Len(Players),
                     c \in {"ID", "Name", "Pos", "Ht", "Wt", "Year", "Team",
                            "Round", "Pick"}}
    \cup {Tests[i][c] : i \in 1..Len(Tests),
                        c \in {"PlayerID", "Pos", "Year", "Name", "Value"}}

\* C22 (as claimed): parse_data completes on files in which a line has
\* fewer fields than the header, and no stored field holds the white space
\* that ended its line.
C22_Claim ==
    result.op = "parse_data" =>
        /\ result.kind = "store"
        /\ StoredFields \subseteq FieldTexts

\* The row of Tests the player's score for the test is read from: the
\* first row written for the player and the test.
ScoreRow == Tests[Least(OwnRows(PctId, PctTest))]

\* C23 (as claimed): a percentile that is a number lies between 0 and 100,
\* and it is above 0 whenever the year asked for is the year of the
\* player's own test row, under either group.
C23_Claim ==
    (PercentileCall /\ result.kind = "float") =>
        /\ result.num \in 0..10000
        /\ PctYear = ScoreRow.Year => result.num > 0

\* C23 (amended): a percentile that is a number lies between 0 and 100;
\* it is above 0 when the year asked for is the year of the test row the
\* player's score is read from and, under "pos_group", that row carries
\* the position of the player's row of Players.
C23_Positive ==
    (PercentileCall /\ result.kind = "float") =>
        /\ result.num \in 0..10000
        /\ (/\ PctYear = ScoreRow.Year
            /\ PctGroup = "pos_group" => ScoreRow.Pos = RowPos(PctId)) =>
               result.num > 0

\* C23 witness: a position-group percentile of 50.0 for a player whose
\* test row carries the player's position and the year asked for, the
\* other value of the population being lower.
C23_Witness ==
    /\ PercentileCall
    /\ result.kind = "float"
    /\ PctGroup = "pos_group"
    /\ PctYear = ScoreRow.Year
    /\ ScoreRow.Pos = RowPos(PctId)
    /\ Cardinality(NonEmpty(PctPop)) = 2
    /\ Cardinality(AtLeast(PctPop, PctScore)) = 1
    /\ result.num = 5000

\* What is observed through a Player the caller holds: its attributes, its
\* score for a test and its percentile for a test, year and group, or
\* that the read raises IndexError on a row that is no longer there.
TestsGone(player) ==
    \E j \in 1..Len(player.tests) : TestRows(player.tests[j]) = <<>>

AttrView(player) ==
    IF PlayerRows(player.id) = <<>> THEN <<"IndexError">>
    ELSE <<Player_name(player.id), Player_pos(player.id), Player_ht(player.id),
           Player_wt(player.id), Player_year(player.id), Player_team(player.id)>>

ScoreView(player, test_name) ==
    IF TestsGone(player) THEN "IndexError" ELSE get_score(player, test_name)

PercentileView(player, test_name, year, group) ==
    IF TestsGone(player) THEN <<"IndexError">>
    ELSE IF /\ PlayerRows(player.id) = <<>>
            /\ \/ get_score(player, test_name) = "DNP"
               \/ IsFloat(get_score(player, test_name)) /\ group # "draft_class"
    THEN <<"IndexError">>
    ELSE LET res == get_percentile(player, test_name, year, group)
         IN  <<res.kind, res.str, res.num, res.err>>

\* C24 (as claimed): a parse_data call that raises leaves what is observed
\* through the Players of an earlier store as it was: their attributes,
\* their scores and their percentiles.
C24_Claim ==
    [][(result'.op = "parse_data" /\ result'.kind = "raise") =>
          \A i \in 1..Len(records) :
              /\ AttrView(records[i])' = AttrView(records[i])
              /\ \A test_name \in TestNames :
                    /\ ScoreView(records[i], test_name)'
                          = ScoreView(records[i], test_name)
                    /\ \A year \in Years, group \in {"draft_class", "pos_group"} :
                          PercentileView(records[i], test_name, year, group)'
                              = PercentileView(records[i], test_name, year, group)]_vars

\* The frame holds the mean of the rows per draft status: one entry n/d
\* for each status that has rows, none for a status without.
IsMeanOf(frame, rows) ==
    /\ \A j \in 1..Len(frame) : frame[j].status \in {"Drafted", "Undrafted"}
    /\ \A status \in {"Drafted", "Undrafted"} :
          LET of_status == SelectSeq(rows, LAMBDA r : r.status = status)
              entries == {j \in 1..Len(frame) : frame[j].status = status}
          IN  IF of_status = <<>> THEN entries = {}
              ELSE /\ Cardinality(entries) = 1
                   /\ \A j \in entries :
                         /\ frame[j].vals[2] > 0
                         /\ frame[j].vals[1] * Len(of_status)
                               = frame[j].vals[2] * sum_vals(of_status)

\* C25: asked for the same variable, year and position of one store,
\* histogram and boxplot hand back the same rows in the same order (or
\* raise the same error at the same row), and barplot hands back the mean
\* per draft status of exactly those rows.
C25_SameRows ==
    (result.op \in SingleBuilders /\ AllReadable) =>
        LET var == result.args[1]
            year == result.args[2]
            pos == result.args[3]
            bar == barplot(var, year, pos)
            hist == histogram(var, year, pos)
            box == boxplot(var, year, pos)
        IN  /\ result = (CASE result.op = "barplot" -> bar
                           [] result.op = "histogram" -> hist
                           [] result.op = "boxplot" -> box)
            /\ box.kind = hist.kind /\ bar.kind = hist.kind
            /\ box.err = hist.err /\ bar.err = hist.err
            /\ box.rows = hist.rows /\ bar.rows = hist.rows
            /\ box.columns = hist.columns /\ bar.columns = hist.columns
            /\ hist.kind = "table" =>
                  /\ box.frame = hist.frame
                  /\ hist.frame = hist.rows
                  /\ IsMeanOf(bar.frame, hist.frame)

\* C25 witness: histogram handed back a drafted and an undrafted row for
\* one position, in that order, so that barplot's table has two entries.
C25_Witness ==
    /\ result.op = "histogram"
    /\ result.kind = "table"
    /\ result.args[3] # None
    /\ Len(result.frame) = 2
    /\ result.frame[1].status = "Drafted"
    /\ result.frame[2].status = "Undrafted"
    /\ Len(barplot(result.args[1], result.args[2], result.args[3]).frame) = 2
====
